---- MODULE Spec2Model ----
(***************************************************************************)
(* Model of granular-core: the granular engine of src/granular-core/src/   *)
(* lib.rs and the delay line, comb and allpass of src/granular-core/src/   *)
(* dsp.rs.                                                                 *)
(*                                                                         *)
(* Numbers.  The engine's f32 quantities are held in fixed point:          *)
(*   start_sample, length, rate, time_since_last_grain, interval_samples   *)
(*       in half samples (2 = one sample),                                 *)
(*   age in whole samples (it only ever grows by 1.0 from 0.0),            *)
(*   grain_size_ms, random_start_ms in half milliseconds,                  *)
(*   density in tenths of a hertz (so that the clamp at 0.1 Hz is 1),      *)
(*   pitch_semitones in semitones, whole octaves only.                     *)
(* f32 rounding is not modelled: every value of the model is exact.        *)
(*                                                                         *)
(* usize arithmetic keeps its two build outcomes: with overflow checks     *)
(* (debug profile) `x - 1` at x = 0 panics, without them (release profile) *)
(* it wraps to usize::MAX.  overflow_checks is chosen once, at Init.       *)
(* An indexing out of bounds panics in both.  A panic ends the engine:     *)
(* the instance is never entered again.                                    *)
(*                                                                         *)
(* The filter -> delay -> reverb -> gain chain of process_internal reads   *)
(* current_sample and feeds nothing back into the granular state; the      *)
(* engine specification stops at current_sample, and leaves out            *)
(* set_effect_params_internal, which touches that chain only.  The delay   *)
(* line and the reverb primitives are modelled on their own (DelaySpec,    *)
(* ReverbSpec), with small capacities; DelayLine::read (the interpolating  *)
(* read) and DelayLine::reset are not modelled.                            *)
(***************************************************************************)
EXTENDS Integers, Sequences, FiniteSets, TLC

VARIABLES
    \* ---- GranularEngine (lib.rs:59-89)
    audio_buffer,           \* Vec<f32>: the source samples
    grains,                 \* Vec<Grain>
    grain_size_ms,
    density,
    random_start_ms,
    pitch_semitones,
    time_since_last_grain,
    region_start,
    region_end,
    is_playing,
    \* ---- the build and the outcome of the last call
    overflow_checks,        \* TRUE: arithmetic overflow panics; FALSE: it wraps
    panic,                  \* "none", or the panic that ended the engine
    last_op,                \* the last exported function called
    \* ---- what the last output sample did (empty unless last_op = "process")
    spawned,                \* <<g>> when spawn_grain pushed grain g, else << >>
    loop_in,                \* the grains when the per-grain loop was entered
    visits,                 \* visits[i]: times the loop body ran on loop_in[i]
    reads,                  \* the source reads of the loop, in order
    current_sample,         \* the granular sum, in 1/2000 of a sample unit
    \* ---- the history of grain_size_ms and density over the output samples
    params_history,         \* "unused": no output sample was processed yet;
                            \* "fixed": every output sample so far ran with
                            \* the present grain_size_ms and density;
                            \* "varied": they were changed between two samples
    \* ---- DelayLine (dsp.rs:91-159)
    delay,                  \* [buffer, write_pos]
    delay_written,          \* every sample written to delay, oldest first
    \* ---- Comb and Allpass (dsp.rs:163-224)
    comb,                   \* [delay, feedback, filter_store, damp]
    comb_call,              \* << >> or <<[read_slot, write_slot, output]>>
    comb_written,
    allpass,                \* [delay, feedback]
    allpass_call,
    allpass_written,
    \* ---- Reverb (dsp.rs:239-243), with one comb and one allpass
    reverb_mix              \* mix, in hundredths

engine_vars == <<audio_buffer, grains, grain_size_ms, density, random_start_ms,
                 pitch_semitones, time_since_last_grain, region_start,
                 region_end, is_playing, overflow_checks, panic, last_op,
                 spawned, loop_in, visits, reads, current_sample,
                 params_history>>
delay_vars == <<delay, delay_written>>
reverb_vars == <<comb, comb_call, comb_written,
                 allpass, allpass_call, allpass_written, reverb_mix>>
vars == <<engine_vars, delay_vars, reverb_vars>>

Max(a, b) == IF a >= b THEN a ELSE b
Min(a, b) == IF a <= b THEN a ELSE b

(***************************************************************************)
(* Bounds of the model.                                                    *)
(***************************************************************************)
\* source buffers have 0..MaxBufLen samples
MaxBufLen == 2
\* process_internal is explored while time_since_last_grain <= MaxTime
MaxTime == 5

(***************************************************************************)
(* Inputs.                                                                 *)
(***************************************************************************)
\* the sample rate the engine is constructed with, in Hz
SampleRate == 1000

\* the buffer of n samples the host installs: sample i (from 0) is i + 1
HostBuffer(n) == [i \in 1..n |-> i]

\* set_region arguments, in samples: up to one past the longest buffer
RegionArgs == 0..(MaxBufLen + 1)

\* set_params arguments
ParamChoices ==
    { [grain_size_ms |-> 4, density |-> 10000, random_start_ms |-> 0, pitch_semitones |-> 0],
      [grain_size_ms |-> 6, density |-> 10000, random_start_ms |-> 2, pitch_semitones |-> -12],
      [grain_size_ms |-> 0, density |-> 5000,  random_start_ms |-> 2, pitch_semitones |-> 12],
      [grain_size_ms |-> 3, density |-> 0,     random_start_ms |-> 0, pitch_semitones |-> 0] }

\* the values of rand_val * 2.0 - 1.0 that spawn_grain can draw
RandDraws == {-1, 0, 1}

(***************************************************************************)
(* Grain                                                                   *)
(***************************************************************************)
Grain_new(start, length, rate) ==
    [start_sample |-> start, end_sample |-> start + (length * rate) \div 2,
     length |-> length, age |-> 0, rate |-> rate, amp |-> 1]

(***************************************************************************)
(* GranularEngine::spawn_grain.  The result is [panic, grain].             *)
(***************************************************************************)
\* (grain_size_ms / 1000.0 * sample_rate).max(1.0), in half samples
GrainLength(size_ms) == Max((size_ms * SampleRate) \div 1000, 2)

\* 2.0f32.powf(pitch_semitones / 12.0), in half samples per sample
GrainRate(semitones) ==
    IF semitones >= 0 THEN 2 * (2 ^ (semitones \div 12))
                      ELSE 2 \div (2 ^ ((0 - semitones) \div 12))

\* (rand_val * 2.0 - 1.0) * (random_start_ms / 1000.0) * sample_rate
RandOffset(draw) == draw * ((random_start_ms * SampleRate) \div 1000)

\* start.max(region_start as f32).min((region_end - 1) as f32); with
\* region_end = 0 and no overflow check the bound is usize::MAX, above
\* every position, so the min changes nothing.
ClampStart(start) ==
    LET lo == Max(start, 2 * region_start)
    IN  IF region_end = 0 THEN lo ELSE Min(lo, 2 * (region_end - 1))

spawn_grain(draw) ==
    IF region_end = 0 /\ overflow_checks
    THEN [panic |-> "spawn_subtract_overflow", grain |-> << >>]
    ELSE [panic |-> "none",
          grain |-> <<Grain_new(ClampStart(2 * region_start + RandOffset(draw)),
                                GrainLength(grain_size_ms),
                                GrainRate(pitch_semitones))>>]

(***************************************************************************)
(* The per-grain loop of process_internal (lib.rs:201-245).                *)
(***************************************************************************)
\* the trapezoidal window, in thousandths (lib.rs:207-219)
Envelope(g) ==
    LET attack_is_fifth == g.length <= 100      \* 0.2 <= 10 / length
        release_is_quarter == g.length <= 96    \* 0.25 <= 12 / length
    IN  IF (IF attack_is_fifth THEN 10 * g.age < g.length ELSE g.age < 10)
        THEN (IF attack_is_fifth THEN (10000 * g.age) \div g.length
                                 ELSE 100 * g.age)
        ELSE IF (IF release_is_quarter THEN 8 * g.age > 3 * g.length
                                       ELSE 2 * g.age > g.length - 24)
        THEN (IF release_is_quarter
              THEN (4000 * (g.length - 2 * g.age)) \div g.length
              ELSE (1000 * (g.length - 2 * g.age)) \div 24)
        ELSE 1000

\* lib.rs:221-230: the source read of one grain.  [panic, pos_int, indexed, s]:
\* indexed is the set of 0-based indices of audio_buffer the read touches,
\* s the interpolated sample in halves.
SourceRead(g) ==
    LET pos_int == g.start_sample \div 2
        frac == g.start_sample % 2
        len == Len(audio_buffer)
    IN  IF len = 0
        THEN \* audio_buffer.len() - 1 underflows
             IF overflow_checks
             THEN [panic |-> "read_subtract_overflow", pos_int |-> pos_int,
                   indexed |-> {}, s |-> 0]
             ELSE \* pos_int < usize::MAX, so audio_buffer[pos_int] is indexed
                  [panic |-> "read_index_out_of_bounds", pos_int |-> pos_int,
                   indexed |-> {pos_int}, s |-> 0]
        ELSE IF pos_int < len - 1
        THEN [panic |-> "none", pos_int |-> pos_int,
              indexed |-> {pos_int, pos_int + 1},
              s |-> 2 * audio_buffer[pos_int + 1]
                    + (audio_buffer[pos_int + 2] - audio_buffer[pos_int + 1]) * frac]
        ELSE [panic |-> "none", pos_int |-> pos_int, indexed |-> {}, s |-> 0]

\* lib.rs:234-235
Advance(g) == [g EXCEPT !.start_sample = @ + g.rate, !.age = @ + 1]

\* Expired with the comparison off by one: g.age > g.length
ExpiredStrict(g) == 2 * g.age > g.length

\* lib.rs:236: g.age >= g.length, after the increment
Expired(g) == 2 * g.age >= g.length

\* Vec::swap_remove(j): the last element takes the place of element j
SwapRemove(s, j) ==
    IF j = Len(s) THEN SubSeq(s, 1, Len(s) - 1)
    ELSE [SubSeq(s, 1, Len(s) - 1) EXCEPT ![j] = s[Len(s)]]

\* lib.rs:239-243: what the loop does with slot j once its grain is processed
AfterGrain(st, g2, r) ==
    LET seen == [st EXCEPT !.visits[st.ids[st.j]] = @ + 1,
                           !.reads = Append(@, r),
                           !.sum = @ + r.s * Envelope(st.gs[st.j])]
    IN  IF Expired(g2)
        THEN [seen EXCEPT !.gs = SwapRemove(st.gs, st.j),
                          !.ids = SwapRemove(st.ids, st.j)]
        ELSE [seen EXCEPT !.gs[st.j] = g2, !.j = @ + 1]

\* while j < self.grains.len() { ... }.  st.ids[k] is the index in loop_in of
\* the grain now in slot k.
RECURSIVE GrainLoop(_)
GrainLoop(st) ==
    IF st.j > Len(st.gs) THEN st
    ELSE LET r == SourceRead(st.gs[st.j])
         IN  IF r.panic # "none"
             THEN [st EXCEPT !.panic = r.panic, !.reads = Append(@, r)]
             ELSE GrainLoop(AfterGrain(st, Advance(st.gs[st.j]), r))

RunGrains(gs) ==
    GrainLoop([gs |-> gs, ids |-> [k \in 1..Len(gs) |-> k], j |-> 1,
               visits |-> [k \in 1..Len(gs) |-> 0], reads |-> << >>,
               sum |-> 0, panic |-> "none"])

(***************************************************************************)
(* The exported functions.                                                 *)
(***************************************************************************)
NoSample ==
    /\ spawned' = << >>
    /\ loop_in' = << >>
    /\ visits' = << >>
    /\ reads' = << >>
    /\ current_sample' = 0

\* IntervalSamples with the interval cut in half: sample_rate / (2 * density)
IntervalHalved == (10 * SampleRate) \div Max(density, 1)

\* sample_rate / self.density.max(0.1), in half samples
IntervalSamples == (20 * SampleRate) \div Max(density, 1)

set_buffer_internal(len) ==
    /\ panic = "none"
    /\ audio_buffer' = HostBuffer(len)
    /\ region_start' = 0
    /\ region_end' = Len(audio_buffer')
    /\ last_op' = "set_buffer"
    /\ NoSample
    /\ UNCHANGED <<grains, grain_size_ms, density, random_start_ms,
                   pitch_semitones, time_since_last_grain, is_playing,
                   overflow_checks, panic, params_history>>

\* ClampEnd without the clamp to the buffer: end.max(self.region_start)
ClampEndNoLen(end, len, start) == Max(end, start)

\* lib.rs:136: end.min(len).max(self.region_start)
ClampEnd(end, len, start) == Max(Min(end, len), start)

set_region_internal(start, end) ==
    /\ panic = "none"
    /\ LET len == Len(audio_buffer)
       IN  IF len = 0
           THEN UNCHANGED <<region_start, region_end>>
           ELSE /\ region_start' = Min(start, len)
                /\ region_end' = ClampEnd(end, len, Min(start, len))
    /\ last_op' = "set_region"
    /\ NoSample
    /\ UNCHANGED <<audio_buffer, grains, grain_size_ms, density,
                   random_start_ms, pitch_semitones, time_since_last_grain,
                   is_playing, overflow_checks, panic, params_history>>

set_params_internal(p) ==
    /\ panic = "none"
    /\ grain_size_ms' = p.grain_size_ms
    /\ density' = p.density
    /\ random_start_ms' = p.random_start_ms
    /\ pitch_semitones' = p.pitch_semitones
    /\ last_op' = "set_params"
    /\ NoSample
    /\ params_history' =
           IF /\ params_history = "fixed"
              /\ <<p.grain_size_ms, p.density>> # <<grain_size_ms, density>>
           THEN "varied" ELSE params_history
    /\ UNCHANGED <<audio_buffer, grains, time_since_last_grain, region_start,
                   region_end, is_playing, overflow_checks, panic>>

set_playing_internal(playing) ==
    /\ panic = "none"
    /\ is_playing' = playing
    /\ last_op' = "set_playing"
    /\ NoSample
    /\ UNCHANGED <<audio_buffer, grains, grain_size_ms, density,
                   random_start_ms, pitch_semitones, time_since_last_grain,
                   region_start, region_end, overflow_checks, panic,
                   params_history>>

\* One pass of `for i in 0..len` (lib.rs:188-262): process_internal with
\* len = 1.  A call with len = n is n of these steps with no other call
\* between them.
process_internal(draw) ==
    /\ panic = "none"
    /\ time_since_last_grain <= MaxTime
    /\ LET timed == Len(audio_buffer) # 0 /\ is_playing
           t1 == IF timed THEN time_since_last_grain + 2
                          ELSE time_since_last_grain
           due == timed /\ t1 >= IntervalSamples
           sp == IF due THEN spawn_grain(draw)
                        ELSE [panic |-> "none", grain |-> << >>]
           run == RunGrains(grains \o sp.grain)
       IN  IF sp.panic # "none"
           THEN \* spawn_grain panicked before the push
                /\ panic' = sp.panic
                /\ time_since_last_grain' = t1
                /\ grains' = grains
                /\ spawned' = << >>
                /\ loop_in' = << >>
                /\ visits' = << >>
                /\ reads' = << >>
                /\ current_sample' = 0
           ELSE /\ panic' = run.panic
                /\ time_since_last_grain' =
                       IF due THEN t1 - IntervalSamples ELSE t1
                /\ grains' = run.gs
                /\ spawned' = sp.grain
                /\ loop_in' = grains \o sp.grain
                /\ visits' = run.visits
                /\ reads' = run.reads
                /\ current_sample' = run.sum
    /\ last_op' = "process"
    /\ params_history' = IF params_history = "unused" THEN "fixed"
                                                      ELSE params_history
    /\ UNCHANGED <<audio_buffer, grain_size_ms, density, random_start_ms,
                   pitch_semitones, region_start, region_end, is_playing,
                   overflow_checks>>

(***************************************************************************)
(* DelayLine (dsp.rs:91-159), on records [buffer, write_pos]; buffer is    *)
(* indexed from 0.                                                         *)
(***************************************************************************)
DelayLine_new_samples(size_samples) ==
    [buffer |-> [i \in 0..(size_samples - 1) |-> 0], write_pos |-> 0]

Capacity(dl) == Cardinality(DOMAIN dl.buffer)

\* the slot read_at(offset_samples) indexes
ReadSlot(dl, offset_samples) ==
    IF dl.write_pos >= offset_samples
    THEN dl.write_pos - offset_samples
    ELSE dl.write_pos + Capacity(dl) - offset_samples

DelayLine_read_at(dl, offset_samples) == dl.buffer[ReadSlot(dl, offset_samples)]

DelayLine_write(dl, sample) ==
    [buffer |-> [dl.buffer EXCEPT ![dl.write_pos] = sample],
     write_pos |-> (dl.write_pos + 1) % Capacity(dl)]

(***************************************************************************)
(* Comb (dsp.rs:163-193) and Allpass (dsp.rs:195-224).  Samples are        *)
(* integers; feedback and damp are in hundredths, and a product is cut to  *)
(* a whole sample.                                                         *)
(***************************************************************************)
Comb_new(size) ==
    [delay |-> DelayLine_new_samples(size), feedback |-> 50,
     filter_store |-> 0, damp |-> 20]

\* [comb, output, read_slot, write_slot, to_delay]
Comb_process(c, input) ==
    LET tap == Capacity(c.delay) - 1
        output == DelayLine_read_at(c.delay, tap)
        store == (output * (100 - c.damp) + c.filter_store * c.damp) \div 100
        to_delay == input + (store * c.feedback) \div 100
    IN  [comb |-> [c EXCEPT !.filter_store = store,
                            !.delay = DelayLine_write(c.delay, to_delay)],
         output |-> output,
         read_slot |-> ReadSlot(c.delay, tap),
         write_slot |-> c.delay.write_pos,
         to_delay |-> to_delay]

Allpass_new(size) == [delay |-> DelayLine_new_samples(size), feedback |-> 50]

\* [allpass, output, buffered_val, read_slot, write_slot, to_delay]
Allpass_process(a, input) ==
    LET tap == Capacity(a.delay) - 1
        buffered_val == DelayLine_read_at(a.delay, tap)
        to_delay == input + (buffered_val * a.feedback) \div 100
    IN  [allpass |-> [a EXCEPT !.delay = DelayLine_write(a.delay, to_delay)],
         output |-> buffered_val - input,
         buffered_val |-> buffered_val,
         read_slot |-> ReadSlot(a.delay, tap),
         write_slot |-> a.delay.write_pos,
         to_delay |-> to_delay]

(***************************************************************************)
(* Bounds and inputs of the delay-line and reverb specifications.          *)
(***************************************************************************)
\* delay lines have 1..MaxCapacity slots
MaxCapacity == 3
\* at most MaxWrites samples are written to a line
MaxWrites == 5

DelaySamples == {1, 2}
ReverbInputs == {0, 20000}
\* Reverb::set_params arguments, in hundredths
ReverbParams == {[mix |-> 0, room_size |-> 50, damp |-> 50],
                 [mix |-> 50, room_size |-> 50, damp |-> 50],
                 [mix |-> 100, room_size |-> 100, damp |-> 0]}

(***************************************************************************)
(* Initial states.                                                         *)
(***************************************************************************)
\* GranularEngine::new (lib.rs:94-122)
EngineInit ==
    /\ audio_buffer = << >>
    /\ grains = << >>
    /\ grain_size_ms = 160
    /\ density = 150
    /\ random_start_ms = 80
    /\ pitch_semitones = 0
    /\ time_since_last_grain = 0
    /\ region_start = 0
    /\ region_end = 0
    /\ is_playing = FALSE
    /\ overflow_checks \in BOOLEAN
    /\ panic = "none"
    /\ last_op = "new"
    /\ spawned = << >>
    /\ loop_in = << >>
    /\ visits = << >>
    /\ reads = << >>
    /\ current_sample = 0
    /\ params_history = "unused"

DelayInit(sizes) ==
    /\ \E size \in sizes : delay = DelayLine_new_samples(size)
    /\ delay_written = << >>

ReverbInit(sizes) ==
    /\ \E size \in sizes : comb = Comb_new(size)
    /\ comb_call = << >>
    /\ comb_written = << >>
    /\ \E size \in sizes : allpass = Allpass_new(size)
    /\ allpass_call = << >>
    /\ allpass_written = << >>
    /\ reverb_mix = 0

(***************************************************************************)
(* The granular engine.                                                    *)
(***************************************************************************)
Init == EngineInit /\ DelayInit({1}) /\ ReverbInit({1})

SetBuffer == \E len \in 0..MaxBufLen : set_buffer_internal(len)
SetRegion == \E start \in RegionArgs, end \in RegionArgs :
                 set_region_internal(start, end)
SetParams == \E p \in ParamChoices : set_params_internal(p)
SetPlaying == \E playing \in BOOLEAN : set_playing_internal(playing)
Process == \E draw \in RandDraws : process_internal(draw)

Next ==
    \/ SetBuffer /\ UNCHANGED <<delay_vars, reverb_vars>>
    \/ SetRegion /\ UNCHANGED <<delay_vars, reverb_vars>>
    \/ SetParams /\ UNCHANGED <<delay_vars, reverb_vars>>
    \/ SetPlaying /\ UNCHANGED <<delay_vars, reverb_vars>>
    \/ Process /\ UNCHANGED <<delay_vars, reverb_vars>>

Spec == Init /\ [][Next]_vars

(***************************************************************************)
(* The grain population: the engine with the region left at the whole      *)
(* buffer (where a grain reads has no part in how long it lives) and       *)
(* set_params arguments whose grains overlap at a spawn interval of two    *)
(* samples.                                                                *)
(***************************************************************************)
\* grains of 4 samples every 2 samples; grains of 3 samples every sample;
\* grains of 1.5 samples at 0.1 Hz, the floor of the density
PopulationParams ==
    { [grain_size_ms |-> 8, density |-> 5000,  random_start_ms |-> 0, pitch_semitones |-> 0],
      [grain_size_ms |-> 6, density |-> 10000, random_start_ms |-> 0, pitch_semitones |-> 0],
      [grain_size_ms |-> 3, density |-> 0,     random_start_ms |-> 0, pitch_semitones |-> 0] }

SetPopulationParams == \E p \in PopulationParams : set_params_internal(p)

PopulationNext ==
    \/ SetBuffer /\ UNCHANGED <<delay_vars, reverb_vars>>
    \/ SetPopulationParams /\ UNCHANGED <<delay_vars, reverb_vars>>
    \/ SetPlaying /\ UNCHANGED <<delay_vars, reverb_vars>>
    \/ Process /\ UNCHANGED <<delay_vars, reverb_vars>>

PopulationSpec == Init /\ [][PopulationNext]_vars

(***************************************************************************)
(* A delay line on its own: DelayLine::write, observed with read_at.       *)
(***************************************************************************)
DelayWrite(sample) ==
    /\ Len(delay_written) < MaxWrites
    /\ delay' = DelayLine_write(delay, sample)
    /\ delay_written' = Append(delay_written, sample)

DelayNext ==
    (\E sample \in DelaySamples : DelayWrite(sample))
        /\ UNCHANGED <<engine_vars, reverb_vars>>

DelaySpecInit == EngineInit /\ DelayInit(1..MaxCapacity) /\ ReverbInit({1})

DelaySpec == DelaySpecInit /\ [][DelayNext]_vars

(***************************************************************************)
(* A Reverb of one comb and one allpass (dsp.rs:267-298): the comb sees    *)
(* input * FIXED_GAIN, the allpass the comb's output.                      *)
(***************************************************************************)
\* Reverb::process.  The value returned, input * (1 - mix) + out * mix *
\* SCALE_WET, is not kept.
Reverb_process(input) ==
    IF 10 * reverb_mix <= 1
    THEN \* mix <= 0.001: the input is passed through, the lines are not touched
         UNCHANGED reverb_vars
    ELSE /\ Len(comb_written) < MaxWrites
         /\ LET c == Comb_process(comb, (input * 15) \div 1000)
                a == Allpass_process(allpass, c.output)
            IN  /\ comb' = c.comb
                /\ comb_call' = <<[read_slot |-> c.read_slot,
                                   write_slot |-> c.write_slot,
                                   output |-> c.output]>>
                /\ comb_written' = Append(comb_written, c.to_delay)
                /\ allpass' = a.allpass
                /\ allpass_call' = <<[read_slot |-> a.read_slot,
                                      write_slot |-> a.write_slot,
                                      output |-> a.buffered_val]>>
                /\ allpass_written' = Append(allpass_written, a.to_delay)
         /\ UNCHANGED reverb_mix

\* Reverb::set_params: mix.clamp(0.0, 1.0); feedback = room_size * SCALE_ROOM
\* + OFFSET_ROOM and damp * SCALE_DAMP go to every comb
Reverb_set_params(p) ==
    /\ reverb_mix' = Max(0, Min(p.mix, 100))
    /\ comb' = [comb EXCEPT !.feedback = (p.room_size * 28) \div 100 + 70,
                            !.damp = (p.damp * 40) \div 100]
    /\ UNCHANGED <<comb_call, comb_written, allpass, allpass_call, allpass_written>>

ReverbNext ==
    \/ (\E input \in ReverbInputs : Reverb_process(input))
           /\ UNCHANGED <<engine_vars, delay_vars>>
    \/ (\E p \in ReverbParams : Reverb_set_params(p))
           /\ UNCHANGED <<engine_vars, delay_vars>>

ReverbSpecInit == EngineInit /\ DelayInit({1}) /\ ReverbInit(1..MaxCapacity)

ReverbSpec == ReverbSpecInit /\ [][ReverbNext]_vars

(***************************************************************************)
(* Properties.                                                             *)
(***************************************************************************)
Count(s, x) == Cardinality({i \in DOMAIN s : s[i] = x})

\* s and t hold the same elements the same number of times
SameBag(s, t) ==
    /\ Len(s) = Len(t)
    /\ \A i \in DOMAIN s : Count(s, s[i]) = Count(t, s[i])

NotExpired(g) == ~Expired(g)

\* what one output sample leaves of the grains gs: each one advanced by one
\* sample, those whose age reached their length dropped
Survivors(gs) == SelectSeq([i \in DOMAIN gs |-> Advance(gs[i])], NotExpired)

ReadPanics == {"read_subtract_overflow", "read_index_out_of_bounds"}

\* C1: set_playing changes nothing but is_playing (no grain removed, the
\* timer kept), and an output sample processed while playback is stopped
\* spawns no grain, enters the per-grain loop with exactly the grains that
\* were live, and leaves each of them aged by one sample and moved by its
\* rate, or removed because its age reached its length.
C1_StopSuppressesSpawnsOnly ==
    [][ /\ last_op' = "set_playing" =>
               /\ grains' = grains
               /\ time_since_last_grain' = time_since_last_grain
        /\ (last_op' = "process" /\ ~is_playing) =>
               /\ spawned' = << >>
               /\ loop_in' = grains
               /\ SameBag(grains', Survivors(grains)) ]_vars

\* C2: every live grain has 0 <= age < length, and every grain the per-grain
\* loop was entered with had age < length: a grain whose age reaches its
\* length does not outlive the sample in which that happens.
C2_GrainLifecycle ==
    /\ \A i \in DOMAIN grains :
           grains[i].age >= 0 /\ 2 * grains[i].age < grains[i].length
    /\ \A i \in DOMAIN loop_in : 2 * loop_in[i].age < loop_in[i].length

\* C2 witness: an output sample in which one grain expired (its age reached
\* its length) while an older-than-new grain survived.
C2_Witness ==
    /\ last_op = "process"
    /\ panic = "none"
    /\ \E i \in DOMAIN loop_in : Expired(Advance(loop_in[i]))
    /\ \E i \in DOMAIN grains : grains[i].age >= 2

\* C3: 0 <= region_start <= region_end <= len(audio_buffer) in every state,
\* and set_buffer leaves the region equal to the whole new buffer.
C3_RegionInvariant ==
    /\ 0 <= region_start
    /\ region_start <= region_end
    /\ region_end <= Len(audio_buffer)
    /\ last_op = "set_buffer" => region_start = 0 /\ region_end = Len(audio_buffer)

\* C3 witness: set_region on a non-empty buffer that was clamped to the empty
\* region at the end of the buffer (start at or beyond the buffer length).
C3_Witness ==
    /\ last_op = "set_region"
    /\ Len(audio_buffer) > 0
    /\ region_start = Len(audio_buffer)
    /\ region_end = Len(audio_buffer)

\* C4: with a non-empty buffer no call ends in a panic, and spawn_grain
\* never evaluates region_end - 1 at region_end = 0.
C4_RegionNeverFails ==
    /\ Len(audio_buffer) > 0 => panic = "none"
    /\ spawned # << >> => region_end > 0

\* C5: every grain spawn_grain creates starts at a position p with
\* region_start <= p <= region_end - 1.
C5_SpawnInsideRegion ==
    spawned # << >> =>
        /\ 2 * region_start <= spawned[1].start_sample
        /\ spawned[1].start_sample <= 2 * (region_end - 1)

\* C6: for every n < capacity, the sample written n writes before the latest
\* one (so n writes followed it) is what read_at(n) returns.
C6_DelayRoundTrip ==
    \A n \in 0..(Capacity(delay) - 1) :
        n < Len(delay_written) =>
            DelayLine_read_at(delay, n) = delay_written[Len(delay_written) - n]

\* the sample that was written `writes` writes before the latest write of
\* `written`, 0 when the line was not yet written that often
WrittenBefore(written, writes) ==
    IF Len(written) > writes THEN written[Len(written) - writes] ELSE 0

\* C8: processing a grain never panics on the source read and never indexes
\* outside audio_buffer; a grain whose upper neighbour floor(position) + 1 is
\* beyond the buffer reads silence.
C8_GrainReadInBounds ==
    /\ panic \notin ReadPanics
    /\ \A i \in DOMAIN reads :
           /\ reads[i].indexed \subseteq 0..(Len(audio_buffer) - 1)
           /\ reads[i].pos_int + 1 >= Len(audio_buffer) =>
                  reads[i].indexed = {} /\ reads[i].s = 0

\* C9: Comb::process and Allpass::process tap the oldest sample of their
\* line: the slot read is the slot the write of the same call overwrites,
\* and the value read is the one written capacity writes before that write.
C9_TapsOldest ==
    /\ comb_call # << >> =>
           /\ comb_call[1].read_slot = comb_call[1].write_slot
           /\ comb_call[1].output =
                  WrittenBefore(comb_written, Capacity(comb.delay))
    /\ allpass_call # << >> =>
           /\ allpass_call[1].read_slot = allpass_call[1].write_slot
           /\ allpass_call[1].output =
                  WrittenBefore(allpass_written, Capacity(allpass.delay))

\* C10: in every output sample that reaches the per-grain loop, the loop body
\* runs exactly once on each grain the loop was entered with, and the grains
\* left are those grains, each aged by one and moved by its rate, less the
\* expired ones.
C10_EachGrainProcessedOnce ==
    (last_op = "process" /\ panic # "spawn_subtract_overflow") =>
        /\ \A i \in DOMAIN loop_in : visits[i] = 1
        /\ SameBag(grains, Survivors(loop_in))

\* density x grain length in seconds, rounded up:
\* ceil(grain length in samples / (sample_rate / max(density, 0.1)))
PopulationBound ==
    (GrainLength(grain_size_ms) * Max(density, 1) + 20 * SampleRate - 1)
        \div (20 * SampleRate)

\* C11: an output sample spawns at most one grain, and as long as every
\* output sample so far ran with the same grain_size_ms and density, the
\* number of live grains is at most density x grain length in seconds,
\* rounded up.
C11_PopulationBounded ==
    /\ Len(spawned) <= 1
    /\ params_history = "fixed" => Len(grains) <= PopulationBound

\* C11 witness: with grain_size_ms and density never changed between output
\* samples and a spawn interval above one sample, an output sample spawned a
\* grain while an older one was live, and the population is at its bound.
C11_Witness ==
    /\ last_op = "process"
    /\ panic = "none"
    /\ params_history = "fixed"
    /\ IntervalSamples > 2
    /\ spawned # << >>
    /\ Len(grains) >= 2
    /\ Len(grains) = PopulationBound

(***************************************************************************)
(* What the code does where the properties above fail.                     *)
(***************************************************************************)
\* An output sample that completes runs the loop body once per grain, also
\* when swap_remove moves the last grain into a vacated slot.
CompletedSampleProcessesEachGrainOnce ==
    (last_op = "process" /\ panic = "none") =>
        /\ \A i \in DOMAIN loop_in : visits[i] = 1
        /\ SameBag(grains, Survivors(loop_in))
        /\ spawned # << >> => loop_in[Len(loop_in)] = spawned[1]
        /\ ~is_playing => spawned = << >>

\* A source read panics exactly when a grain is live and the buffer is empty.
ReadPanicsOnlyOnEmptyBuffer ==
    panic \in ReadPanics => Len(audio_buffer) = 0 /\ grains # << >>

\* spawn_grain on a non-empty region stays inside it.
SpawnInsideNonEmptyRegion ==
    (spawned # << >> /\ region_start < region_end) =>
        /\ 2 * region_start <= spawned[1].start_sample
        /\ spawned[1].start_sample <= 2 * (region_end - 1)

\* Whatever the parameters were, no two live grains have the same age (one
\* spawn per output sample, every grain aged by one), so the population is
\* below the longest live grain's length in samples.
GrainsHaveDistinctAges ==
    /\ \A i, k \in DOMAIN grains : grains[i].age = grains[k].age => i = k
    /\ \A i \in DOMAIN grains :
           \E k \in DOMAIN grains : 2 * Len(grains) <= grains[k].length

\* With grain_size_ms and density never changed and an interval of a sample
\* or more, the timer is below the interval after every output sample that
\* completes (a panic in spawn_grain leaves it unreduced).  A
\* change of the parameters keeps what the timer accumulated under the old
\* interval; a grain is then spawned in every sample until it is used up,
\* whatever the new density.
TimerWithinIntervalWhenFixed ==
    (/\ params_history = "fixed"
     /\ last_op = "process"
     /\ panic = "none"
     /\ IntervalSamples >= 2) => time_since_last_grain < IntervalSamples

\* read_at(n) returns the sample that n - 1 writes followed, 1 <= n <= capacity.
ReadAtIsOneBased ==
    \A n \in 1..Capacity(delay) :
        n <= Len(delay_written) =>
            DelayLine_read_at(delay, n) = delay_written[Len(delay_written) - n + 1]

\* The comb and the allpass tap the slot after the one they overwrite: the
\* sample written capacity - 1 writes before their own write.
TapsSecondOldest ==
    /\ comb_call # << >> =>
           /\ comb_call[1].read_slot =
                  (comb_call[1].write_slot + 1) % Capacity(comb.delay)
           /\ comb_call[1].output =
                  WrittenBefore(comb_written, Capacity(comb.delay) - 1)
                  \/ Capacity(comb.delay) = 1
    /\ allpass_call # << >> =>
           allpass_call[1].read_slot =
               (allpass_call[1].write_slot + 1) % Capacity(allpass.delay)

====
